---- MODULE Spec2Model ----
(***************************************************************************)
(* A model of rust-markov (src/src/lib.rs): the tokenizer `split`, the     *)
(* transition model `Chain` (see / next) and the generator `gen`.          *)
(*                                                                         *)
(* A Rust String is a sequence of Unicode scalar values (code points); a   *)
(* token is such a sequence; the empty String "" is << >>.  A HashMap is a *)
(* function whose DOMAIN is the set of keys present.  An f32 is the        *)
(* integer number of units of 2^-30 it holds (every f32 the sampler can    *)
(* produce for counts below 128 is a whole number of such units).          *)
(***************************************************************************)
EXTENDS Integers, Sequences, FiniteSets, TLC

VARIABLES
    input,      \* gen / split: the `input` argument
    init,       \* gen: the `init` argument
    length,     \* gen: the `length` argument
    pc,         \* position of the running call
    chain,      \* the Chain: [nodes |-> HashMap, edges |-> HashMap]
    out,        \* gen: `out`; split: the returned Vec
    w,          \* gen: `w`
    k,          \* gen: the value the range 1..length yields next
    samples,    \* gen: the chain.next calls made so far (each as [seed, res])
    ret,        \* gen: the returned Result
    call        \* Chain clients: the last Chain method call and its result

vars == <<input, init, length, pc, chain, out, w, k, samples, ret, call>>

(***************************************************************************)
(* Bounds of the model.                                                    *)
(***************************************************************************)
MaxCorpus == 5      \* gen: longest corpus, in characters
MaxLength == 3      \* gen: largest requested length
MaxInput == 3       \* split: longest input, in characters
MaxSee == 3         \* Chain client: most see calls
MaxFrequent == 28   \* sampling client: most see calls of its frequent pair
MaxRare == 1        \* sampling client: most see calls of each other pair

\* Characters of the corpora gen is run on: 'a', 'b', ' ', 'B'.
GenAlphabet == {97, 98, 32, 66}
\* Start tokens gen is run on: "", "a", "b", "z".
Starts == {<< >>, <<97>>, <<98>>, <<122>>}
\* Characters of the inputs split is run on:
\* 'a', 'z', 'A', ' ', ',', TAB, U+212A KELVIN SIGN, U+0130 I WITH DOT ABOVE,
\* U+00C9 E WITH ACUTE.
SplitAlphabet == {97, 122, 65, 32, 44, 9, 8490, 304, 201}
\* Tokens of the Chain client.
Tokens == {<< >>, <<97>>, <<98>>}
\* The sampling client records pairs that start with "a".
SampleFirst == <<97>>
SampleSecond == {<<97>>, <<98>>, <<99>>, <<100>>}

Strings(A, n) == UNION {[1..m -> A] : m \in 0..n}

(***************************************************************************)
(* split (lib.rs 76-84)                                                    *)
(***************************************************************************)
\* char::to_lowercase, on the characters of the alphabets above: Unicode's
\* lowercase mapping (A-Z to a-z; U+212A to 'k'; U+0130 to 'i' U+0307;
\* U+00C9 to U+00E9; every other character here maps to itself).
CharToLowercase(c) ==
    IF c >= 65 /\ c <= 90 THEN <<c + 32>>
    ELSE IF c = 8490 THEN <<107>>
    ELSE IF c = 304 THEN <<105, 775>>
    ELSE IF c = 201 THEN <<233>>
    ELSE <<c>>

RECURSIVE to_lowercase(_)
to_lowercase(s) ==
    IF s = << >> THEN << >>
    ELSE CharToLowercase(Head(s)) \o to_lowercase(Tail(s))

\* the closure of s.retain: (c >= 'a' && c <= 'z') || c == ' '
Keep(c) == (c >= 97 /\ c <= 122) \/ c = 32

retain(s) == SelectSeq(s, Keep)

\* char::is_whitespace on the characters that can occur here
IsWhitespace(c) == c \in {9, 10, 11, 12, 13, 32}

RECURSIVE SplitWs(_, _, _)
SplitWs(s, word, acc) ==
    IF s = << >> THEN (IF word = << >> THEN acc ELSE Append(acc, word))
    ELSE IF IsWhitespace(Head(s))
         THEN SplitWs(Tail(s), << >>, IF word = << >> THEN acc ELSE Append(acc, word))
         ELSE SplitWs(Tail(s), Append(word, Head(s)), acc)

split_whitespace(s) == SplitWs(s, << >>, << >>)

split(s) == split_whitespace(retain(to_lowercase(s)))

(***************************************************************************)
(* Chain (lib.rs 13-74)                                                    *)
(***************************************************************************)
EmptyMap == [x \in {} |-> 0]

\* Chain::new
new == [nodes |-> EmptyMap, edges |-> EmptyMap]

\* *m.get(key).unwrap_or(&0)
Get(m, key) == IF key \in DOMAIN m THEN m[key] ELSE 0

\* Incr with the increment left out for a key already present
IncrInsertOnly(m, key) ==
    [x \in DOMAIN m \cup {key} |-> IF x \in DOMAIN m THEN m[x] ELSE 1]

\* *m.entry(key).or_insert(0) += 1
Incr(m, key) ==
    [x \in DOMAIN m \cup {key} |-> Get(m, x) + (IF x = key THEN 1 ELSE 0)]

\* Chain::see
see(c, a, b) == [nodes |-> Incr(c.nodes, a), edges |-> Incr(c.edges, <<a, b>>)]

Ok(v) == [tag |-> "Ok", val |-> v]
NotSeen(s) == [tag |-> "NotSeen", val |-> s]

(***************************************************************************)
(* f32 arithmetic, in units of 2^-30: IEEE 754 binary32 keeps 24           *)
(* significant bits and rounds to nearest, ties to even.                   *)
(***************************************************************************)
F32One == 2^30

\* the number of bits of x
RECURSIVE BitLen(_)
BitLen(x) == IF x = 0 THEN 0 ELSE 1 + BitLen(x \div 2)

\* q + r/d rounded to the nearest integer, ties to even
RoundEven(q, r, d) ==
    IF 2 * r > d \/ (2 * r = d /\ q % 2 = 1) THEN q + 1 ELSE q

\* x rounded to 24 significant bits
F32Round(x) ==
    LET b == BitLen(x) IN
    IF b <= 24 THEN x
    ELSE LET d == 2^(b - 24) IN RoundEven(x \div d, x % d, d) * d

\* x + y in f32
F32Add(x, y) == F32Round(x + y)

\* a as f32 / n as f32, for integers 1 <= a <= n < 128: the quotient
\* (a * 2^sh) / n rounded, with sh the shift that leaves it 24 bits
F32Div(a, n) ==
    LET sh0 == 23 + BitLen(n) - BitLen(a)
        sh == IF (a * 2^sh0) \div n >= 2^23 THEN sh0 ELSE sh0 + 1
        num == a * 2^sh
    IN RoundEven(num \div n, num % n, n) * 2^(30 - sh)

\* gen_range(0.0, 1.0) for f32 yields multiples of 2^-23 in [0, 1)
GridStep == 2^7
GridCeil(x) == ((x + GridStep - 1) \div GridStep) * GridStep

\* NextLoop with `cursor >= index` for `cursor > index`
RECURSIVE NextLoopGe(_, _, _, _, _, _, _)
NextLoopGe(c, seed, counter, order, index, i, cursor) ==
    IF i > Len(order) THEN NotSeen(seed)
    ELSE LET key == order[i] IN
         IF key[1] # seed THEN NextLoopGe(c, seed, counter, order, index, i + 1, cursor)
         ELSE LET weight == Get(c.edges, key)
                  cursor2 == F32Add(cursor, F32Div(weight, counter))
              IN IF cursor2 >= index THEN Ok(key[2])
                 ELSE NextLoopGe(c, seed, counter, order, index, i + 1, cursor2)

\* NextLoop without the test `key.0 != seed`
RECURSIVE NextLoopNoFilter(_, _, _, _, _, _, _)
NextLoopNoFilter(c, seed, counter, order, index, i, cursor) ==
    IF i > Len(order) THEN NotSeen(seed)
    ELSE LET key == order[i]
             weight == Get(c.edges, key)
             cursor2 == F32Add(cursor, F32Div(weight, counter))
         IN IF cursor2 > index THEN Ok(key[2])
            ELSE NextLoopNoFilter(c, seed, counter, order, index, i + 1, cursor2)

\* Chain::next, with the order in which self.edges.keys() yields the keys
\* and the value drawn for `index` as parameters: the loop of lines 60-70
\* from the i-th key on
RECURSIVE NextLoop(_, _, _, _, _, _, _)
NextLoop(c, seed, counter, order, index, i, cursor) ==
    IF i > Len(order) THEN NotSeen(seed)
    ELSE LET key == order[i] IN
         IF key[1] # seed THEN NextLoop(c, seed, counter, order, index, i + 1, cursor)
         ELSE LET weight == Get(c.edges, key)
                  cursor2 == F32Add(cursor, F32Div(weight, counter))
              IN IF cursor2 > index THEN Ok(key[2])
                 ELSE NextLoop(c, seed, counter, order, index, i + 1, cursor2)

next(c, seed, order, index) ==
    LET counter == Get(c.nodes, seed) IN
    IF counter = 0 THEN NotSeen(seed)
    ELSE NextLoop(c, seed, counter, order, index, 1, 0)

\* the orders in which a HashMap's keys() can yield its keys
KeyOrders(m) ==
    LET n == Cardinality(DOMAIN m) IN
    {o \in [1..n -> DOMAIN m] : \A i, j \in 1..n : o[i] = o[j] => i = j}

\* the values `cursor` takes while next(seed) enumerates the keys in `order`
RECURSIVE Cursors(_, _, _, _, _)
Cursors(c, seed, order, i, cursor) ==
    IF i > Len(order) THEN {}
    ELSE LET key == order[i] IN
         IF key[1] # seed THEN Cursors(c, seed, order, i + 1, cursor)
         ELSE LET cursor2 == F32Add(cursor, F32Div(Get(c.edges, key), Get(c.nodes, seed)))
              IN {cursor2} \cup Cursors(c, seed, order, i + 1, cursor2)

\* Draws of `index`: one value of the 2^-23 grid out of every interval
\* between two successive values of `cursor` (the draws of one interval all
\* give the same result), and the least and the greatest draw.
Draws(c, seed, order) ==
    LET cs == IF Get(c.nodes, seed) = 0 THEN {} ELSE Cursors(c, seed, order, 1, 0)
    IN {u \in {0, F32One - GridStep} \cup {GridCeil(x) : x \in cs} : u < F32One}

(***************************************************************************)
(* gen (lib.rs 86-108)                                                     *)
(***************************************************************************)
\* the for loop over split(input), from word i on; st holds the locals
\* chain, first and prev
RECURSIVE IngestLoop(_, _, _)
IngestLoop(words, i, st) ==
    IF i > Len(words) THEN st
    ELSE LET word == words[i] IN
         IngestLoop(words, i + 1,
             [chain |-> IF st.prev # << >> THEN see(st.chain, st.prev, word) ELSE st.chain,
              first |-> IF st.prev # << >> THEN st.first ELSE word,
              prev  |-> word])

\* Ingest without the closing chain.see(&prev, &first)
IngestNoWrap(s) ==
    IngestLoop(split(s), 1, [chain |-> new, first |-> << >>, prev |-> << >>]).chain

\* lines 87-98: the loop, then chain.see(&prev, &first)
Ingest(s) ==
    LET st == IngestLoop(split(s), 1, [chain |-> new, first |-> << >>, prev |-> << >>])
    IN see(st.chain, st.prev, st.first)

\* InRange for the range 1..=len
InRangeInclusive(i, len) == i <= len

\* whether the range 1..len yields the value i
InRange(i, len) == i < len

NoResult == [tag |-> "None", val |-> << >>]
NoCall == [op |-> "none", a |-> << >>, b |-> << >>, order |-> << >>, index |-> 0,
           self |-> new, res |-> NoResult]

Init ==
    /\ input \in Strings(GenAlphabet, MaxCorpus)
    /\ init \in Starts
    /\ length \in 0..MaxLength
    /\ pc = "gen"
    /\ chain = new
    /\ out = << >>
    /\ w = << >>
    /\ k = 0
    /\ samples = << >>
    /\ ret = NoResult
    /\ call = NoCall

\* lines 87-98
GenIngest ==
    /\ pc = "gen"
    /\ chain' = Ingest(input)
    /\ pc' = "seed"
    /\ UNCHANGED <<input, init, length, out, w, k, samples, ret, call>>

\* lines 100-101, and the range's first value
GenSeed ==
    /\ pc = "seed"
    /\ out' = <<init>>
    /\ w' = init
    /\ k' = 1
    /\ pc' = "walk"
    /\ UNCHANGED <<input, init, length, chain, samples, ret, call>>

\* one turn of the loop of lines 102-105
GenStep ==
    /\ pc = "walk"
    /\ InRange(k, length)
    /\ \E order \in KeyOrders(chain.edges) :
       \E index \in Draws(chain, w, order) :
          LET r == next(chain, w, order, index) IN
          /\ samples' = Append(samples, [seed |-> w, res |-> r])
          /\ IF r.tag = "Ok"
             THEN /\ w' = r.val
                  /\ out' = Append(out, r.val)
                  /\ k' = k + 1
                  /\ UNCHANGED <<pc, ret>>
             ELSE /\ ret' = r
                  /\ pc' = "done"
                  /\ UNCHANGED <<w, out, k>>
    /\ UNCHANGED <<input, init, length, chain, call>>

\* line 107
GenReturn ==
    /\ pc = "walk"
    /\ ~InRange(k, length)
    /\ ret' = Ok(out)
    /\ pc' = "done"
    /\ UNCHANGED <<input, init, length, chain, out, w, k, samples, call>>

Next == GenIngest \/ GenSeed \/ GenStep \/ GenReturn

Spec == Init /\ [][Next]_vars

(***************************************************************************)
(* Clients of split and of Chain                                           *)
(***************************************************************************)
\* a call of split on any input
InitSplit ==
    /\ input \in Strings(SplitAlphabet, MaxInput)
    /\ pc = "split"
    /\ init = << >> /\ length = 0 /\ chain = new /\ out = << >> /\ w = << >>
    /\ k = 0 /\ samples = << >> /\ ret = NoResult /\ call = NoCall

SplitCall ==
    /\ pc = "split"
    /\ out' = split(input)
    /\ pc' = "done"
    /\ UNCHANGED <<input, init, length, chain, w, k, samples, ret, call>>

SpecSplit == InitSplit /\ [][SplitCall]_vars

\* the number of see calls made on c
RECURSIVE Total(_)
Total(m) ==
    IF DOMAIN m = {} THEN 0
    ELSE LET x == CHOOSE y \in DOMAIN m : TRUE
         IN m[x] + Total([y \in DOMAIN m \ {x} |-> m[y]])

\* Clients that hold a Chain::new(), record pairs with see and then sample
\* once with next, as chain_tests::test_next does.  The client at "chain"
\* records any pairs of Tokens, MaxSee at most.  The client at "sampler"
\* records pairs that start with "a": the pair ("a", "b") up to MaxFrequent
\* times and each other pair up to MaxRare times (the f32 sum of next falls
\* short of 1.0 by a whole draw step only for counts this uneven).
InitChain ==
    /\ pc \in {"chain", "sampler"}
    /\ chain = new
    /\ call = NoCall
    /\ input = << >> /\ init = << >> /\ length = 0 /\ out = << >> /\ w = << >>
    /\ k = 0 /\ samples = << >> /\ ret = NoResult

SeeCall(a, b) ==
    /\ chain' = see(chain, a, b)
    /\ call' = [op |-> "see", a |-> a, b |-> b, order |-> << >>, index |-> 0,
                self |-> chain, res |-> NoResult]
    /\ UNCHANGED <<input, init, length, pc, out, w, k, samples, ret>>

NextCall(seed) ==
    /\ \E order \in KeyOrders(chain.edges) :
       \E index \in Draws(chain, seed, order) :
          call' = [op |-> "next", a |-> seed, b |-> << >>, order |-> order,
                   index |-> index, self |-> chain,
                   res |-> next(chain, seed, order, index)]
    /\ pc' = "sampled"
    /\ UNCHANGED <<input, init, length, chain, out, w, k, samples, ret>>

ChainSee ==
    /\ pc = "chain"
    /\ Total(chain.nodes) < MaxSee
    /\ \E a \in Tokens, b \in Tokens : SeeCall(a, b)

ChainNext == pc = "chain" /\ \E seed \in Tokens : NextCall(seed)

\* the most see calls the client at "sampler" makes for the pair ("a", b)
SampleMost(b) == IF b = <<98>> THEN MaxFrequent ELSE MaxRare

SampleSee ==
    /\ pc = "sampler"
    /\ \E b \in SampleSecond :
          /\ Get(chain.edges, <<SampleFirst, b>>) < SampleMost(b)
          /\ SeeCall(SampleFirst, b)

SampleNext == pc = "sampler" /\ NextCall(SampleFirst)

NextChain == ChainSee \/ ChainNext \/ SampleSee \/ SampleNext

SpecChain == InitChain /\ [][NextChain]_vars

(***************************************************************************)
(* Properties                                                              *)
(***************************************************************************)
Range(s) == {s[i] : i \in 1..Len(s)}

Min(S) == CHOOSE x \in S : \A y \in S : x <= y

Ingested == pc \in {"seed", "walk", "done"}

\* the tokens that are the first element of an edge key
Firsts(c) == {key[1] : key \in DOMAIN c.edges}

\* the sum of the weights of the edges that leave a
OutSum(c, a) ==
    LET keys == {key \in DOMAIN c.edges : key[1] = a}
    IN Total([key \in keys |-> c.edges[key]])

\* the f32 running sum of edge/out_count over the edges of seed among the
\* first i keys of order
RECURSIVE RunningSum(_, _, _, _)
RunningSum(c, seed, order, i) ==
    IF i = 0 THEN 0
    ELSE LET before == RunningSum(c, seed, order, i - 1) IN
         IF order[i][1] = seed
         THEN F32Add(before, F32Div(c.edges[order[i]], c.nodes[seed]))
         ELSE before

\* the positions in order of the edges of seed at which the running sum
\* strictly exceeds u
Exceeding(c, seed, order, u) ==
    {i \in 1..Len(order) : order[i][1] = seed /\ RunningSum(c, seed, order, i) > u}

\* seed has outgoing edges whose f32 contributions, in some order, sum to
\* less than 1.0 (as exact fractions they sum to 1)
ResidualGap(c, seed) ==
    /\ Get(c.nodes, seed) >= 1
    /\ \E order \in KeyOrders(c.edges) :
          RunningSum(c, seed, order, Len(order)) < F32One

\* C1: a successful gen returns exactly `length` elements, the first equal
\* to the start; length = 0 returns the empty sequence.
C1_OutputHasLength ==
    (pc = "done" /\ ret.tag = "Ok") =>
        /\ Len(ret.val) = length
        /\ (ret.val # << >> => ret.val[1] = init)

\* C2: a corpus with no tokens leaves the Chain empty after ingestion: no
\* entry in nodes, none in edges.
C2_EmptyCorpusEmptyChain ==
    (Ingested /\ split(input) = << >>) =>
        (DOMAIN chain.nodes = {} /\ DOMAIN chain.edges = {})

\* C3: with length >= 2 and a start that has no outgoing edge (any start at
\* all when the corpus has no tokens), gen fails at its first sample call
\* with NotSeen carrying exactly the start.
C3_UnseenStartFails ==
    (/\ pc = "done"
     /\ length >= 2
     /\ (split(input) = << >> \/ init \notin Firsts(chain))) =>
        (ret = NotSeen(init) /\ Len(samples) = 1 /\ samples[1].seed = init)

\* C4: after ingestion of T, for every token a, out_count[a] is the sum of
\* a's edge weights and the number of positions of T holding a (the last
\* position is followed by the first); edge[(a,b)] is the number of
\* positions where a is followed by b.
C4_CountsMatchCorpus ==
    Ingested =>
        LET T == split(input)
            n == Len(T)
            U == Range(T) \cup DOMAIN chain.nodes \cup Firsts(chain)
                 \cup {key[2] : key \in DOMAIN chain.edges}
        IN \A a \in U :
              /\ Get(chain.nodes, a) = OutSum(chain, a)
              /\ Get(chain.nodes, a) = Cardinality({i \in 1..n : T[i] = a})
              /\ \A b \in U :
                    Get(chain.edges, <<a, b>>) =
                        Cardinality({i \in 1..n : T[i] = a /\ T[(i % n) + 1] = b})

\* C5: for a corpus with at least one token, every token of the corpus has
\* out_count >= 1 and an outgoing edge after ingestion; when the start is a
\* token of the corpus no sample call is on a token with out_count 0, and
\* no sample call and no gen call fails unless f32 rounding left the sum of
\* the contributions below 1.0.
C5_CorpusTokensNeverDeadEnd ==
    LET T == split(input) IN
    (Ingested /\ T # << >>) =>
        /\ \A t \in Range(T) : Get(chain.nodes, t) >= 1 /\ t \in Firsts(chain)
        /\ init \in Range(T) =>
              /\ \A i \in 1..Len(samples) :
                    /\ Get(chain.nodes, samples[i].seed) >= 1
                    /\ samples[i].res.tag = "Ok" \/ ResidualGap(chain, samples[i].seed)
              /\ pc = "done" => (ret.tag = "Ok" \/ ResidualGap(chain, ret.val))

\* a walk from a corpus token that takes the wrap-around edge from the last
\* token of the corpus to the first
C5_Witness ==
    LET T == split(input) IN
    /\ pc = "done" /\ ret.tag = "Ok"
    /\ Len(T) >= 2 /\ init = T[1] /\ T[Len(T)] # T[1]
    /\ \E i \in 1..Len(samples) :
          samples[i].seed = T[Len(T)] /\ samples[i].res = Ok(T[1])

\* C7: gen with length 1 returns Ok([start]) and samples nothing, whatever
\* the corpus and the start; with length >= 1 gen makes at most length - 1
\* sample calls, and exactly length - 1 when it succeeds.
C7_LengthOneNeverSamples ==
    /\ (pc = "done" /\ length = 1) => (ret = Ok(<<init>>) /\ samples = << >>)
    /\ length >= 1 => Len(samples) <= length - 1
    /\ (pc = "done" /\ length >= 1 /\ ret.tag = "Ok") => Len(samples) = length - 1

\* gen returned for length 1 with a start the Chain has never seen
C7_Witness ==
    pc = "done" /\ length = 1 /\ Get(chain.nodes, init) = 0 /\ ret.tag = "Ok"

\* C10: in a gen call every token a sample returns is the second element
\* of a recorded pair that starts with the sampled token, a corpus token
\* (or "" for a corpus without tokens) with out_count >= 1; no sample after
\* the first is on a token with out_count 0; a failure not due to f32
\* rounding is at the first sample and carries the start; if the first
\* sample succeeds so does the call.
C10_FailureOnlyAtFirstSample ==
    LET T == split(input)
        rounding == \E i \in 1..Len(samples) : ResidualGap(chain, samples[i].seed)
    IN
    /\ \A i \in 1..Len(samples) :
          LET s == samples[i] IN
          /\ s.res.tag = "Ok" =>
                /\ <<s.seed, s.res.val>> \in DOMAIN chain.edges
                /\ Get(chain.nodes, s.res.val) >= 1
                /\ s.res.val \in (IF T = << >> THEN {<< >>} ELSE Range(T))
          /\ i > 1 => Get(chain.nodes, s.seed) >= 1
          /\ (s.res.tag = "NotSeen" /\ ~ResidualGap(chain, s.seed)) =>
                (i = 1 /\ s.seed = init /\ s.res.val = init)
    /\ (pc = "done" /\ ret.tag = "NotSeen" /\ ~rounding) =>
          (ret.val = init /\ Len(samples) = 1)
    /\ (pc = "done" /\ ~rounding /\ Len(samples) >= 1 /\ samples[1].res.tag = "Ok") =>
          ret.tag = "Ok"

\* gen failed at its first sample although more were requested from a
\* corpus with tokens
C10_Witness ==
    /\ pc = "done" /\ ret = NotSeen(init) /\ length >= 3
    /\ split(input) # << >> /\ Len(samples) = 1

\* the tokenizer as the specification describes it: A-Z to a-z and no other
\* case folding, only a-z and the space kept, split on runs of spaces
RefLower(c) == IF c >= 65 /\ c <= 90 THEN c + 32 ELSE c

RefKept(s) ==
    LET low == [i \in 1..Len(s) |-> RefLower(s[i])]
        keep(c) == (c >= 97 /\ c <= 122) \/ c = 32
    IN SelectSeq(low, keep)

\* the words of s: its maximal runs of characters other than the space
RefWords(s) ==
    LET n == Len(s)
        starts == {i \in 1..n : s[i] # 32 /\ (i = 1 \/ s[i - 1] = 32)}
        end(i) == Min({j \in i..n : j = n \/ s[j + 1] = 32})
        RECURSIVE from(_)
        from(todo) ==
            IF todo = {} THEN << >>
            ELSE LET i == Min(todo) IN <<SubSeq(s, i, end(i))>> \o from(todo \ {i})
    IN from(starts)

RefTokenize(s) == RefWords(RefKept(s))

\* C6: split returns what the reference tokenizer returns (ASCII-only case
\* folding; a non-ASCII character contributes nothing to any token), so
\* every token is non-empty and holds only a-z.
C6_SplitIsAsciiTokenizer ==
    pc = "done" =>
        /\ out = RefTokenize(input)
        /\ \A i \in 1..Len(out) :
              out[i] # << >> /\ \A j \in 1..Len(out[i]) : out[i][j] \in 97..122

\* C8: after any see calls on a new Chain, (1) out_count[a] is the sum of
\* the weights of a's edges for every a that starts an edge key, (2) every
\* stored edge weight is >= 1, (3) out_count[a] is 0 or absent iff no edge
\* key starts with a; and a see(a, b) call adds exactly 1 to out_count[a]
\* and to edge[(a,b)] and changes no other entry.
C8_SeeKeepsCounts ==
    /\ \A a \in Firsts(chain) : Get(chain.nodes, a) = OutSum(chain, a)
    /\ \A key \in DOMAIN chain.edges : chain.edges[key] >= 1
    /\ \A a \in Tokens \cup SampleSecond \cup DOMAIN chain.nodes :
          Get(chain.nodes, a) = 0 <=> a \notin Firsts(chain)
    /\ call.op = "see" =>
          LET old == call.self
              key == <<call.a, call.b>>
          IN /\ Get(chain.nodes, call.a) = Get(old.nodes, call.a) + 1
             /\ Get(chain.edges, key) = Get(old.edges, key) + 1
             /\ DOMAIN chain.nodes = DOMAIN old.nodes \cup {call.a}
             /\ DOMAIN chain.edges = DOMAIN old.edges \cup {key}
             /\ \A x \in DOMAIN old.nodes \ {call.a} : chain.nodes[x] = old.nodes[x]
             /\ \A x \in DOMAIN old.edges \ {key} : chain.edges[x] = old.edges[x]

\* a self-loop recorded a second time on a Chain that holds other entries
C8_Witness ==
    /\ call.op = "see" /\ call.a = call.b
    /\ Get(chain.edges, <<call.a, call.b>>) >= 2
    /\ Cardinality(DOMAIN chain.nodes) >= 2
    /\ Cardinality(DOMAIN chain.edges) >= 2

\* the tokens with an edge from seed
Successors(c, seed) == {key[2] : key \in {x \in DOMAIN c.edges : x[1] = seed}}

\* C9 as claimed: for a seed with out_count >= 1, any enumeration order and
\* any draw, next returns a token b with edge[(seed,b)] >= 1, the one of
\* the first enumerated edge at which the running sum strictly exceeds the
\* draw; a seed with one successor gets it for every draw; the Chain is
\* unchanged.
C9_NextAlwaysReturnsSuccessor ==
    (call.op = "next" /\ Get(call.self.nodes, call.a) >= 1) =>
        LET E == Exceeding(call.self, call.a, call.order, call.index) IN
        /\ call.res.tag = "Ok"
        /\ Get(call.self.edges, <<call.a, call.res.val>>) >= 1
        /\ E # {}
        /\ call.res.val = call.order[Min(E)][2]
        /\ \A b \in Tokens \cup SampleSecond :
              Successors(call.self, call.a) = {b} => call.res = Ok(b)
        /\ chain = call.self

\* C9 as amended: next returns the token of the first enumerated edge at
\* which the f32 running sum strictly exceeds the draw, a token b with
\* edge[(seed,b)] >= 1; if the f32 running sum over all the edges of seed
\* never exceeds the draw (rounding left it below 1.0) next returns
\* NotSeen carrying seed; a seed with one successor gets it for every
\* draw; the Chain is unchanged.
C9_NextReturnsFirstExceeding ==
    (call.op = "next" /\ Get(call.self.nodes, call.a) >= 1) =>
        LET E == Exceeding(call.self, call.a, call.order, call.index) IN
        /\ IF E # {}
           THEN /\ call.res = Ok(call.order[Min(E)][2])
                /\ Get(call.self.edges, <<call.a, call.res.val>>) >= 1
           ELSE /\ call.res = NotSeen(call.a)
                /\ RunningSum(call.self, call.a, call.order, Len(call.order)) < F32One
        /\ \A b \in Tokens \cup SampleSecond :
              Successors(call.self, call.a) = {b} => call.res = Ok(b)
        /\ chain = call.self

\* next passed over the first enumerated edge of the seed and over edges of
\* other tokens, and returned a later successor
C9_Witness ==
    /\ call.op = "next" /\ call.res.tag = "Ok"
    /\ \E i, j \in 1..Len(call.order) :
          /\ i < j
          /\ call.order[i][1] = call.a
          /\ call.order[i][2] # call.res.val
          /\ call.order[j] = <<call.a, call.res.val>>
    /\ \E i \in 1..Len(call.order) : call.order[i][1] # call.a

====
